---- MODULE Spec2Model ----
(***************************************************************************)
(* Model of the leaderboard dashboard back end: the webhook fetcher of     *)
(* app.py (fetch_webhook_data and its process-wide cache) and the          *)
(* aggregators of enrollment_processors.py.                                *)
(***************************************************************************)
EXTENDS Integers, Sequences, FiniteSets, TLC

VARIABLES
    clock,                  \* wall clock read by datetime.now(), in seconds
    webhook_cache,          \* app.py:88
    webhook_last_success,   \* app.py:87
    pc,                     \* per call: position inside fetch_webhook_data
    current_time,           \* per call: local of app.py:94
    attempt,                \* per call: loop variable of app.py:105
    response,               \* per call: outcome of the latest session.get
    wake,                   \* per call: clock value at which time.sleep ends
    ret,                    \* per call: value returned by the call
    nreq,                   \* per call: requests issued since the call began
    fetched,                \* history: payload and time of the latest success
    now,                    \* aggregators: instant read by datetime.now(tz)
    data,                   \* aggregators: the raw event list handed to them
    result,                 \* aggregators: the latest aggregator call's output
    answer,                 \* endpoints: the latest HTTP response sent
    last_processed_officer, \* app.py:85
    last_sale_timestamp,    \* app.py:86
    reported                \* history: officers reported as new_sales_officer

vars == <<clock, webhook_cache, webhook_last_success, pc, current_time, attempt,
          response, wake, ret, nreq, fetched, now, data, result, answer,
          last_processed_officer, last_sale_timestamp, reported>>

fetchVars == <<clock, webhook_cache, webhook_last_success, pc, current_time,
               attempt, response, wake, ret, nreq, fetched>>

aggVars == <<now, data, result>>

webVars == <<answer, last_processed_officer, last_sale_timestamp, reported>>

----------------------------------------------------------------------------
(* Bounds of the model.                                                    *)

NumCalls == 2       \* concurrent request threads calling fetch_webhook_data
MaxClock == 5       \* seconds of wall clock explored
MaxEvents == 2      \* length of the event lists given to the aggregators
DailyMaxEvents == 3 \* length of the dated event lists of the daily aggregator
MaxBack == 2        \* how many days before now a dated event may lie
DashMaxEvents == 3  \* length of the event list behind the dashboard's aggregates

(* Program constants.                                                      *)

MAX_RETRIES == 3
RETRY_DELAY == 1
CacheDurationSeconds == 5

Calls == 1..NumCalls

----------------------------------------------------------------------------
(* JSON values as Python sees them after response.json().                  *)

(* A list carries its items; an object is kept by its number of keys.       *)

None == [type |-> "null", items |-> <<>>, nkeys |-> 0]

JsonList(s) == [type |-> "list", items |-> s, nkeys |-> 0]

JsonObject(n) == [type |-> "object", items |-> <<>>, nkeys |-> n]

\* Python truthiness of a decoded JSON value: None, [] and {} are falsy.
Truthy(v) == (v.type = "list" /\ Len(v.items) > 0) \/ (v.type = "object" /\ v.nkeys > 0)

NoTime == -1

----------------------------------------------------------------------------
(* Calendar arithmetic of datetime.date: proleptic Gregorian ordinals.     *)

IsLeap(y) == (y % 4 = 0 /\ y % 100 # 0) \/ y % 400 = 0

DaysInMonth(y, m) ==
    IF m = 2 THEN (IF IsLeap(y) THEN 29 ELSE 28)
    ELSE IF m \in {4, 6, 9, 11} THEN 30 ELSE 31

\* Days of the year before the first day of month m.
DaysBeforeMonth(y, m) ==
    <<0, 31, 59, 90, 120, 151, 181, 212, 243, 273, 304, 334>>[m]
    + (IF m > 2 /\ IsLeap(y) THEN 1 ELSE 0)

DaysBeforeYear(y) ==
    (y - 1) * 365 + ((y - 1) \div 4) - ((y - 1) \div 100) + ((y - 1) \div 400)

\* date(y, m, d).toordinal(): 0001-01-01 is day 1.
ToOrdinal(y, m, d) == DaysBeforeYear(y) + DaysBeforeMonth(y, m) + d

\* date.fromordinal(n), as [y, m, d].
FromOrdinal(n) ==
    LET n0   == n - 1
        n400 == n0 \div 146097
        r400 == n0 % 146097
        n100 == r400 \div 36524
        r100 == r400 % 36524
        n4   == r100 \div 1461
        r4   == r100 % 1461
        n1   == r4 \div 365
        r1   == r4 % 365
        year == n400 * 400 + 1 + n100 * 100 + n4 * 4 + n1
    IN  IF n1 = 4 \/ n100 = 4
        THEN [y |-> year - 1, m |-> 12, d |-> 31]
        ELSE LET guess == (r1 + 50) \div 32
                 mm    == IF DaysBeforeMonth(year, guess) > r1 THEN guess - 1 ELSE guess
             IN  [y |-> year, m |-> mm, d |-> r1 - DaysBeforeMonth(year, mm) + 1]

\* date.weekday(): Monday is 0, Sunday is 6.
Weekday(ord) == (ord + 6) % 7

----------------------------------------------------------------------------
(* Aware datetimes, at one-hour granularity.  An instant is a count of     *)
(* hours: 24 * ordinal + hour, taken in UTC.                               *)

UtcHours(y, m, d, h) == 24 * ToOrdinal(y, m, d) + h

\* The n-th Sunday (n >= 1) of month m of year y, as an ordinal.
NthSunday(y, m, n) ==
    LET first == ToOrdinal(y, m, 1)
    IN  first + ((6 - Weekday(first)) % 7) + 7 * (n - 1)

\* America/Los_Angeles: daylight time runs from 02:00 PST (10:00 UTC) on the
\* second Sunday of March to 02:00 PDT (09:00 UTC) on the first Sunday of
\* November.
PacificOffset(utc) ==
    LET y        == FromOrdinal(utc \div 24).y
        dstStart == 24 * NthSunday(y, 3, 2) + 10
        dstEnd   == 24 * NthSunday(y, 11, 1) + 9
    IN  IF dstStart <= utc /\ utc < dstEnd THEN 0 - 7 ELSE 0 - 8

\* Wall-clock fields of an instant at a UTC offset of off hours.
LocalFields(utc, off) ==
    LET loc == utc + off
        ymd == FromOrdinal(loc \div 24)
    IN  [year |-> ymd.y, month |-> ymd.m, day |-> ymd.d, hour |-> loc % 24,
         ord |-> loc \div 24, utc |-> utc]

\* datetime.astimezone(pytz.timezone('America/Los_Angeles'))
astimezone_pacific(dt) == LocalFields(dt.utc, PacificOffset(dt.utc))

\* datetime.now(pytz.timezone('America/Los_Angeles'))
now_pacific(instant) == LocalFields(instant, PacificOffset(instant))

----------------------------------------------------------------------------
(* Values of the loosely typed event fields.  A Python str is tagged       *)
(* "str" (opaque text), "amount" (text given character by character) or    *)
(* "ts" (ISO-8601 text given by its fields); "num" is a JSON number and    *)
(* "none" is Python's None, what dict.get returns for a missing key.       *)

(* Every value has the same fields, so that any two can be compared: s is   *)
(* the text of a "str" (and the zone designator of a "ts"), c the           *)
(* characters of an "amount", n the number of a "num", f the calendar       *)
(* fields of a "ts".                                                        *)

Str(s) == [t |-> "str", s |-> s, c |-> <<>>, n |-> 0, f |-> <<>>]

Amount(chars) == [t |-> "amount", s |-> "", c |-> chars, n |-> 0, f |-> <<>>]

Num(n) == [t |-> "num", s |-> "", c |-> <<>>, n |-> n, f |-> <<>>]

PyNone == [t |-> "none", s |-> "", c |-> <<>>, n |-> 0, f |-> <<>>]

\* An ISO-8601 timestamp string: frac says whether fractional seconds are
\* written; tz is "Z", "offset" (a numeric UTC offset of off hours) or
\* "naive" (no zone designator).
IsoString(y, m, d, h, frac, tz, off) ==
    [t |-> "ts", s |-> tz, c |-> <<>>, n |-> 0,
     f |-> <<y, m, d, h, off, IF frac THEN 1 ELSE 0>>]

TsYear(x)  == x.f[1]
TsMonth(x) == x.f[2]
TsDay(x)   == x.f[3]
TsHour(x)  == x.f[4]
TsOff(x)   == x.f[5]
TsFrac(x)  == x.f[6] = 1
TsZone(x)  == x.s

IsStr(x) == x.t \in {"str", "amount", "ts"}

\* bool(x) for a field value.
Bool(x) ==
    CASE x.t = "str"    -> x.s # ""
      [] x.t = "amount" -> Len(x.c) > 0
      [] x.t = "ts"     -> TRUE
      [] x.t = "num"    -> x.n # 0
      [] OTHER          -> FALSE

\* str.lower() on the flag texts that occur; other texts have no capitals.
LowerText(s) == IF s \in {"Yes", "YES", "yEs"} THEN "yes"
                ELSE IF s \in {"No", "NO"} THEN "no" ELSE s

\* x.lower() == 'yes'.  Calling .lower() on a number raises AttributeError.
LowerIsYes(x) ==
    IF ~IsStr(x) THEN [ok |-> FALSE, val |-> FALSE]
    ELSE [ok |-> TRUE, val |-> (x.t = "str" /\ LowerText(x.s) = "yes")]

\* dict.get(key, default)
Get(d, key, default) == IF key \in DOMAIN d THEN d[key] ELSE default

----------------------------------------------------------------------------
(* Timestamp parsing.                                                      *)

\* datetime.strptime(x, "%Y-%m-%dT%H:%M:%S.%f%z"): fractional seconds and a
\* zone designator (numeric, or Z) are both required.  The result is an
\* aware datetime whose fields are those written in the string.
strptime(x) ==
    IF x.t = "ts" /\ TsFrac(x) /\ TsZone(x) \in {"Z", "offset"}
    THEN LET off == IF TsZone(x) = "Z" THEN 0 ELSE TsOff(x)
         IN  [ok |-> TRUE,
              val |-> LocalFields(UtcHours(TsYear(x), TsMonth(x), TsDay(x), TsHour(x)) - off,
                                  off)]
    ELSE [ok |-> FALSE, val |-> LocalFields(0, 0)]

\* enrollment_processors.py:24-27: a trailing Z becomes +00:00, then
\* datetime.fromisoformat, then astimezone.  Fractional seconds and the zone
\* are optional; a naive datetime is taken to be in the system's local zone
\* by astimezone (the system zone is taken to be UTC).
fromisoformat_pacific(x) ==
    IF x.t = "ts"
    THEN LET off == IF TsZone(x) = "offset" THEN TsOff(x) ELSE 0
             dt  == LocalFields(UtcHours(TsYear(x), TsMonth(x), TsDay(x), TsHour(x)) - off,
                                off)
         IN  [ok |-> TRUE, val |-> astimezone_pacific(dt)]
    ELSE [ok |-> FALSE, val |-> LocalFields(0, 0)]

----------------------------------------------------------------------------
(* Amount parsing: float(payment_amount.strip('$').replace(',', '')).      *)
(* Amounts are kept in hundredths.                                         *)

Digits == <<"0", "1", "2", "3", "4", "5", "6", "7", "8", "9">>

DigitVal(c) == (CHOOSE i \in 1..10 : Digits[i] = c) - 1

IsDigit(c) == \E i \in 1..10 : Digits[i] = c

RECURSIVE StripLeft(_, _)
StripLeft(s, c) == IF Len(s) > 0 /\ Head(s) = c THEN StripLeft(Tail(s), c) ELSE s

RECURSIVE StripRight(_, _)
StripRight(s, c) ==
    IF Len(s) > 0 /\ s[Len(s)] = c THEN StripRight(SubSeq(s, 1, Len(s) - 1), c) ELSE s

\* str.strip(c)
Strip(s, c) == StripRight(StripLeft(s, c), c)

\* str.replace(c, '')
Remove(s, c) == SelectSeq(s, LAMBDA ch : ch # c)

RECURSIVE DigitsValue(_)
DigitsValue(s) ==
    IF Len(s) = 0 THEN 0 ELSE 10 * DigitsValue(SubSeq(s, 1, Len(s) - 1)) + DigitVal(s[Len(s)])

\* float(s) for plain decimal text with at most two decimals; anything else
\* (no digit at all, a letter, a second point) raises ValueError.
Float(s) ==
    LET dots  == {i \in 1..Len(s) : s[i] = "."}
        dot   == IF dots = {} THEN Len(s) + 1 ELSE CHOOSE i \in dots : TRUE
        whole == SubSeq(s, 1, dot - 1)
        frac  == SubSeq(s, dot + 1, Len(s))
        good  == /\ Cardinality(dots) <= 1
                 /\ Len(whole) + Len(frac) > 0
                 /\ Len(frac) <= 2
                 /\ \A i \in 1..Len(s) : i \in dots \/ IsDigit(s[i])
    IN  IF ~good THEN [ok |-> FALSE, val |-> 0]
        ELSE [ok |-> TRUE,
              val |-> 100 * DigitsValue(whole)
                      + (IF Len(frac) = 1 THEN 10 ELSE 1) * DigitsValue(frac)]

\* float(payment_amount.strip('$').replace(',', ''))
ParseAmount(x) == Float(Remove(Strip(x.c, "$"), ","))

----------------------------------------------------------------------------
(* Python dicts that the aggregators build are kept as sequences of        *)
(* records in insertion order; the dict key is the record's name field.    *)

IndexOf(d, k) ==
    IF \E i \in 1..Len(d) : d[i].name = k
    THEN CHOOSE i \in 1..Len(d) : d[i].name = k
    ELSE 0

Has(d, k) == IndexOf(d, k) # 0

\* entry['timestamp'] and entry['data'] raise KeyError when the key is missing.
HasKey(entry, key) == key \in DOMAIN entry

\* The month the month-windowed aggregators compare against:
\* datetime.now(pytz.timezone('America/Los_Angeles')).month
current_month(instant) == now_pacific(instant).month

\* timestamp.month == current_month, on the datetime the aggregator holds.
SameMonth(ts, instant) == ts.month = current_month(instant)

----------------------------------------------------------------------------
(* process_daily_enrollments                                               *)

DateKey(ord) == FromOrdinal(ord)

\* Order of "%Y-%m-%d" strings.
DateLess(a, b) ==
    \/ a.y < b.y
    \/ a.y = b.y /\ a.m < b.m
    \/ a.y = b.y /\ a.m = b.m /\ a.d < b.d

\* enrollment_processors.py:15-20: the pre-seeded buckets, in insertion order.
RECURSIVE SeedBuckets(_, _, _)
SeedBuckets(current_date, i, acc) ==
    IF i = 14 THEN acc
    ELSE LET day == current_date - i
             acc1 == IF Weekday(day) < 5
                     THEN Append(acc, [name |-> DateKey(day + 1), count |-> 0])
                     ELSE acc
         IN  IF Len(acc1) = 10 THEN acc1 ELSE SeedBuckets(current_date, i + 1, acc1)

\* DailyStep without the one-day shift of the event's date.
DailyStepUnshifted(buckets, entry) ==
    LET parsed == fromisoformat_pacific(entry.timestamp)
        date_key == DateKey(parsed.val.ord)
        yes == LowerIsYes(Get(entry.data, "Leadsales", Str("no")))
    IN  IF ~HasKey(entry, "timestamp") \/ ~HasKey(entry, "data") \/ ~parsed.ok \/ ~yes.ok
        THEN [acc |-> buckets, raised |-> TRUE]
        ELSE IF Has(buckets, date_key) /\ yes.val
        THEN [acc |-> [buckets EXCEPT ![IndexOf(buckets, date_key)].count = @ + 1],
              raised |-> FALSE]
        ELSE [acc |-> buckets, raised |-> FALSE]

\* DailyStep creating a bucket for a date that was not seeded.
DailyStepCreating(buckets, entry) ==
    LET parsed == fromisoformat_pacific(entry.timestamp)
        date_key == DateKey(parsed.val.ord + 1)
        yes == LowerIsYes(Get(entry.data, "Leadsales", Str("no")))
        all == IF Has(buckets, date_key) THEN buckets
               ELSE Append(buckets, [name |-> date_key, count |-> 0])
    IN  IF ~HasKey(entry, "timestamp") \/ ~HasKey(entry, "data") \/ ~parsed.ok \/ ~yes.ok
        THEN [acc |-> buckets, raised |-> TRUE]
        ELSE IF yes.val
        THEN [acc |-> [all EXCEPT ![IndexOf(all, date_key)].count = @ + 1],
              raised |-> FALSE]
        ELSE [acc |-> all, raised |-> FALSE]

\* enrollment_processors.py:23-35: one entry of the loop.  raised says
\* whether the entry ended in the except clause.
DailyStep(buckets, entry) ==
    LET unchanged == [acc |-> buckets, raised |-> FALSE]
        failed    == [acc |-> buckets, raised |-> TRUE]
    IN  IF ~HasKey(entry, "timestamp") THEN failed
        ELSE IF ~IsStr(entry.timestamp) THEN failed
        ELSE LET parsed == fromisoformat_pacific(entry.timestamp)
             IN  IF ~parsed.ok THEN failed
                 ELSE LET date_key == DateKey(parsed.val.ord + 1)
                      IN  IF ~Has(buckets, date_key) THEN unchanged
                          ELSE IF ~HasKey(entry, "data") THEN failed
                          ELSE LET yes == LowerIsYes(Get(entry.data, "Leadsales", Str("no")))
                                   i   == IndexOf(buckets, date_key)
                               IN  IF ~yes.ok THEN failed
                                   ELSE IF yes.val
                                   THEN [acc |-> [buckets EXCEPT ![i].count = @ + 1],
                                         raised |-> FALSE]
                                   ELSE unchanged

RECURSIVE DailyLoop(_, _, _)
DailyLoop(buckets, events, i) ==
    IF i > Len(events) THEN buckets
    ELSE DailyLoop(DailyStep(buckets, events[i]).acc, events, i + 1)

\* sorted(..., key=date, reverse=True): a stable insertion sort, newest first.
RECURSIVE InsertByDateDesc(_, _)
InsertByDateDesc(sorted, x) ==
    IF Len(sorted) = 0 THEN <<x>>
    ELSE IF DateLess(Head(sorted).name, x.name) THEN <<x>> \o sorted
    ELSE <<Head(sorted)>> \o InsertByDateDesc(Tail(sorted), x)

RECURSIVE SortByDateDesc(_, _)
SortByDateDesc(d, i) ==
    IF i = 0 THEN <<>> ELSE InsertByDateDesc(SortByDateDesc(d, i - 1), d[i])

process_daily_enrollments(events, instant) ==
    LET seeded == SeedBuckets(now_pacific(instant).ord, 0, <<>>)
        counted == DailyLoop(seeded, events, 1)
        sorted_data == SortByDateDesc(counted, Len(counted))
    IN  SubSeq(sorted_data, 1, IF Len(sorted_data) < 10 THEN Len(sorted_data) ELSE 10)

----------------------------------------------------------------------------
(* process_leadsource_data                                                 *)

\* enrollment_processors.py:47-58: one entry of the loop.
LeadsourceStep(leadsource_sales, entry, instant) ==
    LET unchanged == [acc |-> leadsource_sales, raised |-> FALSE]
        failed    == [acc |-> leadsource_sales, raised |-> TRUE]
    IN  IF ~HasKey(entry, "timestamp") THEN failed
        ELSE LET parsed == strptime(entry.timestamp)
             IN  IF ~parsed.ok THEN failed
                 ELSE IF ~SameMonth(astimezone_pacific(parsed.val), instant) THEN unchanged
                 ELSE IF ~HasKey(entry, "data") THEN failed
                 ELSE LET lead_sales  == Get(entry.data, "Leadsales", Str("no"))
                          lead_source == Get(entry.data, "Leadsource", Str(""))
                          yes         == LowerIsYes(lead_sales)
                          i           == IndexOf(leadsource_sales, lead_source)
                      IN  IF ~yes.ok THEN failed
                          ELSE IF ~(yes.val /\ Bool(lead_source)) THEN unchanged
                          ELSE IF i = 0
                          THEN [acc |-> Append(leadsource_sales,
                                               [name |-> lead_source, count |-> 1]),
                                raised |-> FALSE]
                          ELSE [acc |-> [leadsource_sales EXCEPT ![i].count = @ + 1],
                                raised |-> FALSE]

RECURSIVE LeadsourceLoop(_, _, _, _)
LeadsourceLoop(acc, events, i, instant) ==
    IF i > Len(events) THEN acc
    ELSE LeadsourceLoop(LeadsourceStep(acc, events[i], instant).acc, events, i + 1, instant)

process_leadsource_data(events, instant) == LeadsourceLoop(<<>>, events, 1, instant)

----------------------------------------------------------------------------
(* process_admin_monthly_revenue                                           *)

NewOfficer(officer_name) == [name |-> officer_name, value |-> 0, demos |-> 0]

\* enrollment_processors.py:75-80 (and 108-113): create the officer lazily.
WithOfficer(monthly_sales, officer_name) ==
    IF Has(monthly_sales, officer_name) THEN monthly_sales
    ELSE Append(monthly_sales, NewOfficer(officer_name))

\* enrollment_processors.py:85-90 (and 115-120): add the payment amount.  A
\* falsy amount is skipped; a number has no .strip and raises AttributeError,
\* which the entry's outer except catches; text that float() rejects raises
\* ValueError, caught by the inner except (warned is then TRUE).
AddPayment(monthly_sales, officer_name, payment_amount) ==
    LET i == IndexOf(monthly_sales, officer_name)
    IN  IF ~Bool(payment_amount)
        THEN [acc |-> monthly_sales, raised |-> FALSE, warned |-> FALSE]
        ELSE IF payment_amount.t # "amount"
        THEN [acc |-> monthly_sales, raised |-> ~IsStr(payment_amount),
              warned |-> IsStr(payment_amount)]
        ELSE LET amount == ParseAmount(payment_amount)
             IN  IF ~amount.ok
                 THEN [acc |-> monthly_sales, raised |-> FALSE, warned |-> TRUE]
                 ELSE [acc |-> [monthly_sales EXCEPT ![i].value = @ + amount.val],
                       raised |-> FALSE, warned |-> FALSE]

\* enrollment_processors.py:68-92: one entry of the loop.
AdminRevenueStep(monthly_sales, entry, instant) ==
    LET unchanged == [acc |-> monthly_sales, raised |-> FALSE, warned |-> FALSE]
        failed    == [acc |-> monthly_sales, raised |-> TRUE, warned |-> FALSE]
    IN  IF ~HasKey(entry, "timestamp") THEN failed
        ELSE LET parsed == strptime(entry.timestamp)
             IN  IF ~parsed.ok THEN failed
                 ELSE IF ~SameMonth(astimezone_pacific(parsed.val), instant) THEN unchanged
                 ELSE IF ~HasKey(entry, "data") THEN failed
                 ELSE LET officer_name   == Get(entry.data, "SetOfficerName", Str(""))
                          lead_sales     == Get(entry.data, "Leadsales", Str("no"))
                          payment_amount == Get(entry.data, "Paymentamount", Amount(<<"0">>))
                          created        == WithOfficer(monthly_sales, officer_name)
                          i              == IndexOf(created, officer_name)
                          yes            == LowerIsYes(lead_sales)
                          counted        == IF yes.ok /\ yes.val
                                            THEN [created EXCEPT ![i].demos = @ + 1]
                                            ELSE created
                      IN  IF ~yes.ok
                          THEN [acc |-> created, raised |-> TRUE, warned |-> FALSE]
                          ELSE AddPayment(counted, officer_name, payment_amount)

RECURSIVE AdminRevenueLoop(_, _, _, _)
AdminRevenueLoop(acc, events, i, instant) ==
    IF i > Len(events) THEN acc
    ELSE AdminRevenueLoop(AdminRevenueStep(acc, events[i], instant).acc,
                          events, i + 1, instant)

process_admin_monthly_revenue(events, instant) == AdminRevenueLoop(<<>>, events, 1, instant)

----------------------------------------------------------------------------
(* process_initial_payments                                                *)

\* A ledger that never recognises a case identifier it has seen.
IsDuplicateCaseNever(cases, case_id) == FALSE

\* enrollment_processors.py:167: case_id in payments[officer_name]['cases']
IsDuplicateCase(cases, case_id) == case_id \in cases

\* enrollment_processors.py:139-176: one entry of the loop.
PaymentsStep(payments, entry, instant) ==
    LET unchanged == [acc |-> payments, raised |-> FALSE]
        failed    == [acc |-> payments, raised |-> TRUE]
    IN  IF ~HasKey(entry, "data") THEN failed
        ELSE LET yes == LowerIsYes(Get(entry.data, "InitialPayment", Str("no")))
             IN  IF ~yes.ok THEN failed
                 ELSE IF ~yes.val THEN unchanged
                 ELSE IF ~HasKey(entry, "timestamp") THEN failed
                 ELSE LET parsed == strptime(entry.timestamp)
                      IN  IF ~parsed.ok THEN failed
                          \* line 147-148: the month of the datetime as parsed,
                          \* in the zone the string was written in
                          ELSE IF ~SameMonth(parsed.val, instant) THEN unchanged
                          ELSE LET officer_name == Get(entry.data, "SetOfficerName", PyNone)
                                   case_id      == Get(entry.data, "CaseID", PyNone)
                                   created      == IF Has(payments, officer_name) THEN payments
                                                   ELSE Append(payments,
                                                               [name |-> officer_name,
                                                                count |-> 0, cases |-> {}])
                                   i            == IndexOf(created, officer_name)
                               IN  IF ~(Bool(officer_name) /\ Bool(case_id)) THEN unchanged
                                   ELSE IF IsDuplicateCase(created[i].cases, case_id)
                                   THEN [acc |-> created, raised |-> FALSE]
                                   ELSE [acc |-> [created EXCEPT
                                                     ![i].count = @ + 1,
                                                     ![i].cases = @ \cup {case_id}],
                                         raised |-> FALSE]

RECURSIVE PaymentsLoop(_, _, _, _)
PaymentsLoop(acc, events, i, instant) ==
    IF i > Len(events) THEN acc
    ELSE PaymentsLoop(PaymentsStep(acc, events[i], instant).acc, events, i + 1, instant)

process_initial_payments(events, instant) == PaymentsLoop(<<>>, events, 1, instant)

----------------------------------------------------------------------------
(* process_monthly_revenue_enrollments                                     *)

\* enrollment_processors.py:102-122: one entry of the loop.
RevenueEnrollStep(monthly_sales, entry, instant) ==
    LET unchanged == [acc |-> monthly_sales, raised |-> FALSE, warned |-> FALSE]
        failed    == [acc |-> monthly_sales, raised |-> TRUE, warned |-> FALSE]
    IN  IF ~HasKey(entry, "timestamp") THEN failed
        ELSE LET parsed == strptime(entry.timestamp)
             IN  IF ~parsed.ok THEN failed
                 ELSE IF ~SameMonth(astimezone_pacific(parsed.val), instant) THEN unchanged
                 ELSE IF ~HasKey(entry, "data") THEN failed
                 ELSE LET officer_name   == Get(entry.data, "SetOfficerName", Str(""))
                          payment_amount == Get(entry.data, "Paymentamount", Amount(<<"0">>))
                      IN  AddPayment(WithOfficer(monthly_sales, officer_name),
                                     officer_name, payment_amount)

RECURSIVE RevenueEnrollLoop(_, _, _, _)
RevenueEnrollLoop(acc, events, i, instant) ==
    IF i > Len(events) THEN acc
    ELSE RevenueEnrollLoop(RevenueEnrollStep(acc, events[i], instant).acc,
                           events, i + 1, instant)

\* enrollment_processors.py:124-130: demos overwritten from the payments ledger.
process_monthly_revenue_enrollments(events, instant) ==
    LET monthly_sales == RevenueEnrollLoop(<<>>, events, 1, instant)
        payments_data == process_initial_payments(events, instant)
    IN  [k \in 1..Len(monthly_sales) |->
            IF Has(payments_data, monthly_sales[k].name)
            THEN [monthly_sales[k] EXCEPT
                     !.demos = payments_data[IndexOf(payments_data, monthly_sales[k].name)].count]
            ELSE monthly_sales[k]]

----------------------------------------------------------------------------
(* process_enrollments_per_opener                                          *)

\* enrollment_processors.py:187-213: one entry of the loop.
OpenerStep(opener_enrollments, entry, instant) ==
    LET unchanged == [acc |-> opener_enrollments, raised |-> FALSE]
        failed    == [acc |-> opener_enrollments, raised |-> TRUE]
    IN  IF ~HasKey(entry, "data") THEN failed
        ELSE IF ~HasKey(entry, "timestamp") THEN failed
        ELSE LET parsed == strptime(entry.timestamp)
             IN  IF ~parsed.ok THEN failed
                 ELSE IF ~SameMonth(astimezone_pacific(parsed.val), instant) THEN unchanged
                 ELSE LET yes         == LowerIsYes(Get(entry.data, "Leadsales", Str("no")))
                          opener_name == Get(entry.data, "OpenerName", Str(""))
                          i           == IndexOf(opener_enrollments, opener_name)
                      IN  IF ~yes.ok THEN failed
                          ELSE IF ~yes.val \/ ~Bool(opener_name) THEN unchanged
                          ELSE IF i = 0
                          THEN [acc |-> Append(opener_enrollments,
                                               [name |-> opener_name, count |-> 1]),
                                raised |-> FALSE]
                          ELSE [acc |-> [opener_enrollments EXCEPT ![i].count = @ + 1],
                                raised |-> FALSE]

RECURSIVE OpenerLoop(_, _, _, _)
OpenerLoop(acc, events, i, instant) ==
    IF i > Len(events) THEN acc
    ELSE OpenerLoop(OpenerStep(acc, events[i], instant).acc, events, i + 1, instant)

\* sorted(items, key=count, reverse=True): stable, largest count first.
RECURSIVE InsertByCountDesc(_, _)
InsertByCountDesc(sorted, x) ==
    IF Len(sorted) = 0 THEN <<x>>
    ELSE IF Head(sorted).count < x.count THEN <<x>> \o sorted
    ELSE <<Head(sorted)>> \o InsertByCountDesc(Tail(sorted), x)

RECURSIVE SortByCountDesc(_, _)
SortByCountDesc(d, i) ==
    IF i = 0 THEN <<>> ELSE InsertByCountDesc(SortByCountDesc(d, i - 1), d[i])

process_enrollments_per_opener(events, instant) ==
    LET opener_enrollments == OpenerLoop(<<>>, events, 1, instant)
    IN  SortByCountDesc(opener_enrollments, Len(opener_enrollments))

----------------------------------------------------------------------------
(* Raw events the webhook receiver can deliver.                            *)

TsIn       == IsoString(2026, 11, 10, 12, TRUE, "offset", 0)
TsEdge     == IsoString(2026, 11, 1, 3, TRUE, "offset", 0)
TsLastYear == IsoString(2025, 11, 10, 12, TRUE, "offset", 0)
TsOct      == IsoString(2026, 10, 20, 12, TRUE, "offset", 0 - 7)
TsNoFrac   == IsoString(2026, 11, 10, 12, FALSE, "offset", 0)
TsZ        == IsoString(2026, 11, 10, 12, TRUE, "Z", 0)

Amt300  == Amount(<<"3", "0", "0">>)
Amt1200 == Amount(<<"$", "1", ",", "2", "0", "0", ".", "5", "0">>)
AmtNA   == Amount(<<"N", "/", "A">>)

EvPayment ==
    [timestamp |-> TsIn,
     data |-> [InitialPayment |-> Str("yes"), SetOfficerName |-> Str("A"),
               CaseID |-> Str("27594"), Paymentamount |-> Amt300]]

EvLead ==
    [timestamp |-> TsIn,
     data |-> [Leadsales |-> Str("yes"), Leadsource |-> Str("FB"),
               SetOfficerName |-> Str("A"), OpenerName |-> Str("X"),
               Paymentamount |-> Amt1200]]

\* Initial-payment events.
PaymentEvents ==
    { EvPayment,
      [timestamp |-> TsIn,
       data |-> [InitialPayment |-> Str("YES"), SetOfficerName |-> Str("A"),
                 CaseID |-> Str("27594"), Paymentamount |-> Amt1200]],
      [timestamp |-> TsIn,
       data |-> [InitialPayment |-> Str("yes"), SetOfficerName |-> Str("A"),
                 CaseID |-> Str("31001")]],
      [timestamp |-> TsIn,
       data |-> [InitialPayment |-> Str("yes"), SetOfficerName |-> Str("B"),
                 CaseID |-> Str("27594"), Leadsales |-> Str("yes")]],
      [timestamp |-> TsEdge,
       data |-> [InitialPayment |-> Str("yes"), SetOfficerName |-> Str("A"),
                 CaseID |-> Str("40000"), Paymentamount |-> Amt300]],
      [timestamp |-> TsOct,
       data |-> [InitialPayment |-> Str("yes"), SetOfficerName |-> Str("B"),
                 CaseID |-> Str("31001")]],
      [timestamp |-> TsIn,
       data |-> [InitialPayment |-> Str("yes"), SetOfficerName |-> Str("A")]],
      [timestamp |-> TsIn,
       data |-> [InitialPayment |-> Str("no"), SetOfficerName |-> Str("B"),
                 CaseID |-> Str("50000"), Paymentamount |-> Amt300]] }

\* Lead-sale events.
LeadEvents ==
    { EvLead,
      [timestamp |-> TsIn,
       data |-> [Leadsales |-> Str("Yes"), Leadsource |-> Str("Google"),
                 SetOfficerName |-> Str("B"), OpenerName |-> Str("Y")]],
      [timestamp |-> TsIn,
       data |-> [Leadsales |-> Str("yes"), Leadsource |-> Str(""),
                 OpenerName |-> Str("X")]],
      [timestamp |-> TsIn,
       data |-> [Leadsales |-> Str("no"), Leadsource |-> Str("FB"),
                 SetOfficerName |-> Str("A"), OpenerName |-> Str("Y")]],
      [timestamp |-> TsLastYear,
       data |-> [Leadsales |-> Str("yes"), Leadsource |-> Str("FB"),
                 SetOfficerName |-> Str("A"), OpenerName |-> Str("X")]],
      [timestamp |-> TsEdge,
       data |-> [Leadsales |-> Str("yes"), Leadsource |-> Str("Google"),
                 SetOfficerName |-> Str("B"), OpenerName |-> Str("Y")]],
      [timestamp |-> TsOct,
       data |-> [Leadsales |-> Str("yes"), Leadsource |-> Str("FB"),
                 SetOfficerName |-> Str("B"), OpenerName |-> Str("X")]],
      [timestamp |-> TsZ,
       data |-> [Leadsales |-> Str("yes"), Leadsource |-> Str("FB"),
                 SetOfficerName |-> Str("A")]] }

\* Events with a missing key, a mistyped field or unparsable text.
OddEvents ==
    { [data |-> [Leadsales |-> Str("yes"), SetOfficerName |-> Str("A"),
                 Leadsource |-> Str("FB")]],
      [timestamp |-> TsIn],
      [timestamp |-> Num(1731240000),
       data |-> [Leadsales |-> Str("yes"), SetOfficerName |-> Str("A")]],
      [timestamp |-> TsNoFrac,
       data |-> [Leadsales |-> Str("yes"), Leadsource |-> Str("FB"),
                 SetOfficerName |-> Str("A"), OpenerName |-> Str("X")]],
      [timestamp |-> TsIn,
       data |-> [Leadsales |-> Num(1), SetOfficerName |-> Str("C"),
                 Leadsource |-> Str("FB"), Paymentamount |-> Amt300]],
      [timestamp |-> TsIn,
       data |-> [Leadsales |-> Str("yes"), SetOfficerName |-> Str("A"),
                 Paymentamount |-> Num(100)]],
      [timestamp |-> TsIn,
       data |-> [Leadsales |-> Str("no"), SetOfficerName |-> Str("C"),
                 Paymentamount |-> AmtNA]],
      [timestamp |-> TsIn,
       data |-> [InitialPayment |-> Num(1), SetOfficerName |-> Str("A"),
                 CaseID |-> Str("27594")]] }

EventPool == PaymentEvents \cup LeadEvents \cup OddEvents

\* Instants at which the aggregators run: 2026-11-15 10:00 PST and
\* 2026-10-31 22:00 PDT (05:00 UTC the next day).
NowSet == {UtcHours(2026, 11, 15, 18), UtcHours(2026, 11, 1, 5)}

----------------------------------------------------------------------------
(* The webhook fetcher: fetch_webhook_data, app.py:91-132.                 *)

\* What session.get / raise_for_status / response.json can come to.
Failure(kind) == [status |-> kind, body |-> None]

Success(v) == [status |-> "ok", body |-> v]

NoResponse == [status |-> "none", body |-> None]

\* The except clauses of app.py:117-122: Timeout; any other RequestException
\* (a connection error, or the HTTPError raise_for_status raises for a
\* non-success status); ValueError from response.json() (a body that is not
\* valid JSON).
FailureKinds == {"timeout", "request_error", "bad_json"}

\* Bodies that are valid JSON: null, the empty list, an event list, an object.
JsonBodies == {None, JsonList(<<>>), JsonList(<<EvLead, EvPayment>>), JsonObject(1)}

Responses == {Failure(k) : k \in FailureKinds} \cup {Success(v) : v \in JsonBodies}

IsSuccess(r) == r.status = "ok"

\* app.py:97-98: the cache is served when both globals are truthy and the
\* cache is younger than webhook_cache_duration.
IsFresh(cache, last_success, t) ==
    /\ Truthy(cache)
    /\ last_success # NoTime
    /\ t - last_success < CacheDurationSeconds

\* A fetcher whose failed attempt drops the cached payload.
CacheAfterDropping(cache, r) == IF IsSuccess(r) THEN r.body ELSE None

\* app.py:108-111 and 117-122: webhook_cache after an attempt that came to r.
CacheAfter(cache, r) == IF IsSuccess(r) THEN r.body ELSE cache

\* app.py:124: whether the loop sleeps after the failure of attempt a.
SleepsAfter(a) == a < MAX_RETRIES - 1

\* A loop that runs one iteration too many.
NextIterationOneMore(a) == IF a + 1 < MAX_RETRIES + 1 THEN "request" ELSE "fallback"

\* app.py:105: where the loop goes after iteration a of range(MAX_RETRIES).
NextIteration(a) == IF a + 1 < MAX_RETRIES THEN "request" ELSE "fallback"

\* app.py:127-132: the value returned once every attempt has failed.
FallbackValue(cache) == IF Truthy(cache) THEN cache ELSE None

NoResult == [fn |-> "none", value |-> <<>>]

FetchInit ==
    /\ clock = 0
    /\ webhook_cache = None
    /\ webhook_last_success = NoTime
    /\ pc = [c \in Calls |-> "idle"]
    /\ current_time = [c \in Calls |-> 0]
    /\ attempt = [c \in Calls |-> 0]
    /\ response = [c \in Calls |-> NoResponse]
    /\ wake = [c \in Calls |-> 0]
    /\ ret = [c \in Calls |-> None]
    /\ nreq = [c \in Calls |-> 0]
    /\ fetched = [payload |-> None, at |-> NoTime]

\* No response sent yet.
NoAnswer == [status |-> 0, body |-> "none", new_sales_officer |-> PyNone]

\* app.py:85-86: the module globals of dashboard_data.
WebInit ==
    /\ answer = NoAnswer
    /\ last_processed_officer = PyNone
    /\ last_sale_timestamp = <<>>
    /\ reported = <<>>

Init ==
    /\ FetchInit
    /\ WebInit
    /\ now = 0
    /\ data = <<>>
    /\ result = NoResult

\* app.py:94-100: read the clock and serve the cache if it is fresh.
Begin(c) ==
    /\ pc[c] = "idle"
    /\ current_time' = [current_time EXCEPT ![c] = clock]
    /\ IF IsFresh(webhook_cache, webhook_last_success, clock)
       THEN /\ ret' = [ret EXCEPT ![c] = webhook_cache]
            /\ pc' = [pc EXCEPT ![c] = "done"]
       ELSE /\ ret' = ret
            /\ pc' = [pc EXCEPT ![c] = "request"]
    /\ attempt' = [attempt EXCEPT ![c] = 0]
    /\ UNCHANGED <<clock, webhook_cache, webhook_last_success, response, wake, nreq,
                   fetched>>
    /\ UNCHANGED <<aggVars, webVars>>

\* app.py:106-122: one attempt.  On success the parsed body is stored in
\* webhook_cache (line 111); on failure the except clause only logs.
Request(c, r) ==
    /\ pc[c] = "request"
    /\ response' = [response EXCEPT ![c] = r]
    /\ nreq' = [nreq EXCEPT ![c] = @ + 1]
    /\ webhook_cache' = CacheAfter(webhook_cache, r)
    /\ IF IsSuccess(r)
       THEN /\ pc' = [pc EXCEPT ![c] = "stamp"]
            /\ fetched' = [payload |-> r.body, at |-> clock]
            /\ wake' = wake
       ELSE /\ fetched' = fetched
            /\ IF SleepsAfter(attempt[c])
               THEN /\ pc' = [pc EXCEPT ![c] = "sleep"]
                    /\ wake' = [wake EXCEPT ![c] = clock + RETRY_DELAY * (attempt[c] + 1)]
               ELSE /\ pc' = [pc EXCEPT ![c] = NextIteration(attempt[c])]
                    /\ wake' = wake
    /\ UNCHANGED <<clock, webhook_last_success, current_time, attempt, ret>>
    /\ UNCHANGED <<aggVars, webVars>>

\* app.py:112: webhook_last_success = current_time
Stamp(c) ==
    /\ pc[c] = "stamp"
    /\ webhook_last_success' = current_time[c]
    /\ pc' = [pc EXCEPT ![c] = "return"]
    /\ UNCHANGED <<clock, webhook_cache, current_time, attempt, response, wake, ret, nreq,
                   fetched>>
    /\ UNCHANGED <<aggVars, webVars>>

\* app.py:115: return webhook_cache (the global is read again)
Return(c) ==
    /\ pc[c] = "return"
    /\ ret' = [ret EXCEPT ![c] = webhook_cache]
    /\ pc' = [pc EXCEPT ![c] = "done"]
    /\ UNCHANGED <<clock, webhook_cache, webhook_last_success, current_time, attempt,
                   response, wake, nreq, fetched>>
    /\ UNCHANGED <<aggVars, webVars>>

\* app.py:125 then 105: time.sleep is over, the loop goes to its next iteration.
Sleep(c) ==
    /\ pc[c] = "sleep"
    /\ clock >= wake[c]
    /\ pc' = [pc EXCEPT ![c] = NextIteration(attempt[c])]
    /\ attempt' = [attempt EXCEPT ![c] = @ + 1]
    /\ wake' = [wake EXCEPT ![c] = 0]
    /\ UNCHANGED <<clock, webhook_cache, webhook_last_success, current_time, response, ret,
                   nreq, fetched>>
    /\ UNCHANGED <<aggVars, webVars>>

\* app.py:127-132: every attempt failed.
Fallback(c) ==
    /\ pc[c] = "fallback"
    /\ ret' = [ret EXCEPT ![c] = FallbackValue(webhook_cache)]
    /\ pc' = [pc EXCEPT ![c] = "done"]
    /\ UNCHANGED <<clock, webhook_cache, webhook_last_success, current_time, attempt,
                   response, wake, nreq, fetched>>
    /\ UNCHANGED <<aggVars, webVars>>

\* The caller has the result; the thread is free for the next request.
Finish(c) ==
    /\ pc[c] = "done"
    /\ pc' = [pc EXCEPT ![c] = "idle"]
    /\ current_time' = [current_time EXCEPT ![c] = 0]
    /\ attempt' = [attempt EXCEPT ![c] = 0]
    /\ response' = [response EXCEPT ![c] = NoResponse]
    /\ ret' = [ret EXCEPT ![c] = None]
    /\ nreq' = [nreq EXCEPT ![c] = 0]
    /\ UNCHANGED <<clock, webhook_cache, webhook_last_success, wake, fetched>>
    /\ UNCHANGED <<aggVars, webVars>>

\* A second of wall-clock time passes.
Tick ==
    /\ clock < MaxClock
    /\ clock' = clock + 1
    /\ UNCHANGED <<webhook_cache, webhook_last_success, pc, current_time, attempt, response,
                   wake, ret, nreq, fetched>>
    /\ UNCHANGED <<aggVars, webVars>>

\* No other call is inside fetch_webhook_data.
Quiet(c) == \A d \in Calls \ {c} : pc[d] \in {"idle", "done"}

\* Requests served one at a time: a call begins only when no other is running.
BeginAlone(c) == Quiet(c) /\ Begin(c)

Next ==
    \/ \E c \in Calls : BeginAlone(c)
    \/ \E c \in Calls : \E r \in Responses : Request(c, r)
    \/ \E c \in Calls : Stamp(c)
    \/ \E c \in Calls : Return(c)
    \/ \E c \in Calls : Sleep(c)
    \/ \E c \in Calls : Fallback(c)
    \/ \E c \in Calls : Finish(c)
    \/ Tick

Spec == Init /\ [][Next]_vars

\* Requests served by concurrent threads (app.run serves each request in its
\* own thread): calls interleave statement by statement, with no lock.
ConcNext ==
    \/ \E c \in Calls : Begin(c)
    \/ \E c \in Calls : \E r \in Responses : Request(c, r)
    \/ \E c \in Calls : Stamp(c)
    \/ \E c \in Calls : Return(c)
    \/ \E c \in Calls : Sleep(c)
    \/ \E c \in Calls : Fallback(c)
    \/ \E c \in Calls : Finish(c)
    \/ Tick

ConcSpec == Init /\ [][ConcNext]_vars

----------------------------------------------------------------------------
(* The endpoints that call the fetcher: app.py:220-284.                    *)

\* The call's locals are gone; the thread is free for the next request.
Released(c) ==
    /\ pc' = [pc EXCEPT ![c] = "idle"]
    /\ current_time' = [current_time EXCEPT ![c] = 0]
    /\ attempt' = [attempt EXCEPT ![c] = 0]
    /\ response' = [response EXCEPT ![c] = NoResponse]
    /\ ret' = [ret EXCEPT ![c] = None]
    /\ nreq' = [nreq EXCEPT ![c] = 0]
    /\ UNCHANGED <<clock, webhook_cache, webhook_last_success, wake, fetched>>

\* jsonify({"error": "Failed to fetch data"}), 500
FetchFailed == [status |-> 500, body |-> "error", new_sales_officer |-> PyNone]

\* app.py:279-284: the response of /api/daily-enrollments for what the
\* fetcher returned.  The body is kept by its kind: the list of
\* {date, count} buckets of process_daily_enrollments, or the error object.
DailyAnswer(webhook_data) ==
    IF Truthy(webhook_data)
    THEN [status |-> 200, body |-> "buckets", new_sales_officer |-> PyNone]
    ELSE FetchFailed

\* app.py:277-284, after fetch_webhook_data has returned ret[c].
daily_enrollments(c) ==
    /\ pc[c] = "done"
    /\ answer' = DailyAnswer(ret[c])
    /\ Released(c)
    /\ UNCHANGED <<last_processed_officer, last_sale_timestamp, reported>>
    /\ UNCHANGED aggVars

EndpointNext ==
    \/ \E c \in Calls : BeginAlone(c)
    \/ \E c \in Calls : \E r \in Responses : Request(c, r)
    \/ \E c \in Calls : Stamp(c)
    \/ \E c \in Calls : Return(c)
    \/ \E c \in Calls : Sleep(c)
    \/ \E c \in Calls : Fallback(c)
    \/ \E c \in Calls : daily_enrollments(c)
    \/ Tick

EndpointSpec == Init /\ [][EndpointNext]_vars

\* app.py:245: last_sale_timestamp.get(officer_name, 0)
LastSaleDemos(seen, officer_name) ==
    IF Has(seen, officer_name) THEN seen[IndexOf(seen, officer_name)].count ELSE 0

\* app.py:243-247: the first entry, in the order of sales_data, with demos
\* above zero and different from the demos last recorded for its officer
\* (0 when there is none).
FirstNewSale(sales_data, seen) ==
    LET fresh == { i \in 1..Len(sales_data) :
                     /\ sales_data[i].demos > 0
                     /\ sales_data[i].demos # LastSaleDemos(seen, sales_data[i].name) }
    IN  IF fresh = {} THEN 0 ELSE CHOOSE i \in fresh : \A j \in fresh : i <= j

\* A handler that forgets to record the demos it has reported.
SaleRecordedNowhere(seen, officer_name, demos) == seen

\* app.py:250: last_sale_timestamp[officer_name] = entry['demos']
SaleRecorded(seen, officer_name, demos) ==
    IF Has(seen, officer_name)
    THEN [seen EXCEPT ![IndexOf(seen, officer_name)].count = demos]
    ELSE Append(seen, [name |-> officer_name, count |-> demos])

\* app.py:253-260: the 200 response, kept by its new_sales_officer field.
DashboardAnswer(officer) ==
    [status |-> 200, body |-> "dashboard", new_sales_officer |-> officer]

\* app.py:221-264, after fetch_webhook_data has returned ret[c].  The write
\* of the snapshot rows to the database (lines 227-234) is left out.
dashboard_data(c) ==
    /\ pc[c] = "done"
    /\ IF Truthy(ret[c])
       THEN \E sales_data \in {process_admin_monthly_revenue(ret[c].items, now)} :
            \E i \in {FirstNewSale(sales_data, last_sale_timestamp)} :
                IF i # 0
                THEN /\ answer' = DashboardAnswer(sales_data[i].name)
                     /\ last_processed_officer' = sales_data[i].name
                     /\ last_sale_timestamp' =
                            SaleRecorded(last_sale_timestamp, sales_data[i].name,
                                         sales_data[i].demos)
                     /\ reported' = Append(reported, sales_data[i].name)
                ELSE /\ answer' = DashboardAnswer(PyNone)
                     /\ UNCHANGED <<last_processed_officer, last_sale_timestamp, reported>>
       ELSE /\ answer' = FetchFailed
            /\ UNCHANGED <<last_processed_officer, last_sale_timestamp, reported>>
    /\ Released(c)
    /\ UNCHANGED aggVars

\* Events behind the officer aggregates of the dashboard: lead sales of
\* officers A and B, and a payment-only event of officer C (demos 0).
DashPool ==
    { EvLead,
      [timestamp |-> TsIn,
       data |-> [Leadsales |-> Str("Yes"), Leadsource |-> Str("Google"),
                 SetOfficerName |-> Str("B"), OpenerName |-> Str("Y")]],
      [timestamp |-> TsIn,
       data |-> [Leadsales |-> Str("no"), SetOfficerName |-> Str("C"),
                 Paymentamount |-> Amt300]],
      [timestamp |-> TsZ,
       data |-> [Leadsales |-> Str("yes"), Leadsource |-> Str("FB"),
                 SetOfficerName |-> Str("A")]] }

DashLists == UNION { [1..n -> DashPool] : n \in 0..DashMaxEvents }

\* The instant dashboard_data runs at: 2026-11-15 10:00 PST.
DashNow == UtcHours(2026, 11, 15, 18)

\* The webhook holds one event list for the whole run: the officer
\* aggregates do not change between calls.
DashInit ==
    /\ FetchInit
    /\ WebInit
    /\ now = DashNow
    /\ data \in DashLists
    /\ result = NoResult

\* What the webhook answers in such a run: a failure (a timeout stands for
\* the three kinds, which the fetcher handles alike), or the event list.
DashResponses == {Failure("timeout"), Success(JsonList(data))}

\* Successive calls of dashboard_data, one at a time, on one thread.
DashNext ==
    \/ BeginAlone(1)
    \/ \E r \in DashResponses : Request(1, r)
    \/ Stamp(1)
    \/ Return(1)
    \/ Sleep(1)
    \/ Fallback(1)
    \/ dashboard_data(1)
    \/ Tick

DashSpec == DashInit /\ [][DashNext]_vars

----------------------------------------------------------------------------
(* The aggregators, applied to event lists drawn from EventPool.           *)

AggInit ==
    /\ FetchInit
    /\ WebInit
    /\ now \in NowSet
    /\ data = <<>>
    /\ result = NoResult

\* One more raw event is in the list the aggregators are given.
Receive(e) ==
    /\ result = NoResult
    /\ Len(data) < MaxEvents
    /\ data' = Append(data, e)
    /\ result' = NoResult
    /\ UNCHANGED now
    /\ UNCHANGED <<fetchVars, webVars>>

Apply(fn, events, instant) ==
    CASE fn = "daily_enrollments"   -> process_daily_enrollments(events, instant)
      [] fn = "leadsource_data"     -> process_leadsource_data(events, instant)
      [] fn = "admin_monthly_revenue" -> process_admin_monthly_revenue(events, instant)
      [] fn = "monthly_revenue_enrollments" ->
             process_monthly_revenue_enrollments(events, instant)
      [] fn = "initial_payments"    -> process_initial_payments(events, instant)
      [] fn = "enrollments_per_opener" -> process_enrollments_per_opener(events, instant)

Aggregators ==
    {"daily_enrollments", "leadsource_data", "admin_monthly_revenue",
     "monthly_revenue_enrollments", "initial_payments", "enrollments_per_opener"}

\* An aggregator is called on the current list.
Aggregate(fn) ==
    /\ result = NoResult
    /\ result' = [fn |-> fn, value |-> Apply(fn, data, now)]
    /\ UNCHANGED <<now, data>>
    /\ UNCHANGED <<fetchVars, webVars>>

\* The endpoint has answered with the aggregate.
Respond ==
    /\ result # NoResult
    /\ result' = NoResult
    /\ UNCHANGED <<now, data>>
    /\ UNCHANGED <<fetchVars, webVars>>

AggNext ==
    \/ \E e \in EventPool : Receive(e)
    \/ \E fn \in Aggregators : Aggregate(fn)
    \/ Respond

AggSpec == AggInit /\ [][AggNext]_vars

----------------------------------------------------------------------------
(* process_daily_enrollments on events dated relative to now, as the tests *)
(* of test_app.py:16-29 build them.                                        *)

\* Instants at which the daily aggregator runs: 10:00 PST on each day of the
\* week of Monday 2026-11-09, and 21:00 PST on Wednesday 2026-11-11.
DailyNowSet ==
    { UtcHours(2026, 11, d, 18) : d \in 9..15 } \cup { UtcHours(2026, 11, 12, 5) }

\* Ways the timestamp is written: "naive" is
\* (datetime.now() - timedelta(days=back)).isoformat() of test_app.py:18 (no
\* zone, the system zone being UTC); "pacific" is the same instant written in
\* Pacific time with its UTC offset.
Styles == {"naive", "pacific"}

\* The timestamp string of the instant `back` days before `instant`.
DatedTimestamp(instant, back, style) ==
    LET at  == instant - 24 * back
        off == IF style = "pacific" THEN PacificOffset(at) ELSE 0
        f   == LocalFields(at, off)
    IN  IsoString(f.year, f.month, f.day, f.hour, TRUE,
                  IF style = "pacific" THEN "offset" ELSE "naive", off)

\* test_app.py:17-20: an event of `back` days ago with a Leadsales flag.
DatedEvent(instant, back, style, flag) ==
    [timestamp |-> DatedTimestamp(instant, back, style),
     data |-> [Leadsales |-> Str(flag)]]

DailyInit ==
    /\ FetchInit
    /\ WebInit
    /\ now \in DailyNowSet
    /\ data = <<>>
    /\ result = NoResult

\* One more event, dated `back` days before now, is in the list.
ReceiveDated(back, style, flag) ==
    /\ result = NoResult
    /\ Len(data) < DailyMaxEvents
    /\ data' = Append(data, DatedEvent(now, back, style, flag))
    /\ result' = NoResult
    /\ UNCHANGED now
    /\ UNCHANGED <<fetchVars, webVars>>

DailyNext ==
    \/ \E back \in 1..MaxBack : \E style \in Styles : \E flag \in {"yes", "no"} :
           ReceiveDated(back, style, flag)
    \/ Aggregate("daily_enrollments")
    \/ Respond

DailySpec == DailyInit /\ [][DailyNext]_vars

----------------------------------------------------------------------------
(* Properties of the fetcher.                                              *)

\* The step taken is an attempt of call c (a request was issued).
Attempted(c) == nreq'[c] = nreq[c] + 1

\* C1: when every attempt of a call has failed and an earlier fetch
\* succeeded, the call returns the payload of the most recent successful
\* fetch, whatever it is; it returns None only if no fetch ever succeeded.
C1_FallbackReturnsLastFetched ==
    [][\A c \in Calls :
          (pc[c] = "fallback" /\ pc'[c] = "done") =>
              ret'[c] = (IF fetched.at # NoTime THEN fetched.payload ELSE None)]_vars

\* C2: a call that starts less than 5 seconds after the moment the cached
\* payload was fetched makes no request and returns the cached payload (the
\* age counts from the success, not from the start of the call that fetched).
C2_FreshCacheServedFromSuccessTime ==
    [][\A c \in Calls :
          ( /\ pc[c] = "idle" /\ pc'[c] # "idle"
            /\ Truthy(webhook_cache)
            /\ fetched.at # NoTime
            /\ clock - fetched.at < CacheDurationSeconds )
          => (pc'[c] = "done" /\ ret'[c] = webhook_cache /\ nreq'[c] = 0)]_vars

\* C3: a failed attempt leaves webhook_cache and webhook_last_success as they
\* were; the cache is written only by an attempt that got a success status
\* and a parseable body, and the timestamp only by the call that made it.
C3_FailedAttemptKeepsCache ==
    [][ /\ \A c \in Calls :
              (Attempted(c) /\ ~IsSuccess(response'[c])) =>
                  /\ webhook_cache' = webhook_cache
                  /\ webhook_last_success' = webhook_last_success
        /\ (webhook_cache' # webhook_cache) =>
              \E c \in Calls : /\ Attempted(c)
                               /\ IsSuccess(response'[c])
                               /\ webhook_cache' = response'[c].body
        /\ (webhook_last_success' # webhook_last_success) =>
              \E c \in Calls : /\ pc[c] = "stamp" /\ pc'[c] = "return"
                               /\ IsSuccess(response[c])
                               /\ webhook_last_success' = current_time[c] ]_vars

\* A failed attempt has been made while a payload was cached.
C3_Witness ==
    \E c \in Calls :
        /\ nreq[c] >= 1
        /\ response[c].status \in FailureKinds
        /\ Truthy(webhook_cache)
        /\ webhook_last_success # NoTime

\* C4: a call makes at most 3 attempts, none after the third; the first
\* successful attempt ends the loop, so no attempt follows a success.
C4_AtMostThreeAttempts ==
    \A c \in Calls :
        /\ nreq[c] <= MAX_RETRIES
        /\ nreq[c] = MAX_RETRIES => pc[c] \in {"stamp", "return", "fallback", "done"}
        /\ IsSuccess(response[c]) => pc[c] \in {"stamp", "return", "done"}

\* One call has returned after three failed attempts, another after a
\* success on its second attempt.
C4_Witness ==
    \E c, d \in Calls :
        /\ pc[c] = "done" /\ nreq[c] = MAX_RETRIES /\ ~IsSuccess(response[c])
        /\ pc[d] = "done" /\ nreq[d] = 2 /\ IsSuccess(response[d])

\* C5: an attempt whose body is valid JSON but not a list (an object, null)
\* is handled like a transport failure: nothing is cached and the fetcher
\* goes on to the next attempt or to the fallback.
C5_NonListBodyIsAFailure ==
    [][\A c \in Calls :
          (Attempted(c) /\ IsSuccess(response'[c]) /\ response'[c].body.type # "list")
          => /\ webhook_cache' = webhook_cache
             /\ pc'[c] \in {"sleep", "request", "fallback"}]_vars

\* Call c is between its freshness check and its cache write.
InFlight(c) == pc[c] \in {"request", "sleep"}

\* The step taken is one of call d that reads or writes webhook_cache or
\* webhook_last_success.
AccessesCache(d) ==
    /\ pc'[d] # pc[d]
    /\ \/ pc[d] \in {"idle", "stamp", "return", "fallback"}
       \/ pc[d] = "request" /\ pc'[d] = "stamp"

\* C6: while one call is between its freshness check and its cache write, no
\* other call reads or writes the cache.
C6_CacheAccessSerialized ==
    [][\A c, d \in Calls : (c # d /\ InFlight(c)) => ~AccessesCache(d)]_vars

----------------------------------------------------------------------------
(* Properties of the aggregators.                                          *)

\* The list without its i-th event.
WithoutAt(events, i) == SubSeq(events, 1, i - 1) \o SubSeq(events, i + 1, Len(events))

\* Event e, taken alone, is counted by process_initial_payments.
CountedPayment(e, instant) == PaymentsStep(<<>>, e, instant).acc # <<>>

\* The case identifiers of the events of the list counted for an officer.
CountedCases(events, instant, officer_name) ==
    { events[i].data.CaseID :
        i \in { j \in 1..Len(events) :
                  /\ CountedPayment(events[j], instant)
                  /\ events[j].data.SetOfficerName = officer_name } }

\* C7: in the result of process_initial_payments each officer's count is the
\* size of the officer's cases set, which is the set of distinct case
\* identifiers among the officer's counted events: a repeated (officer, case)
\* never raises the count.
C7_CountIsDistinctCases ==
    result.fn = "initial_payments" =>
        \A k \in 1..Len(result.value) :
            /\ result.value[k].count = Cardinality(result.value[k].cases)
            /\ result.value[k].cases = CountedCases(data, now, result.value[k].name)

\* The ledger was computed from two counted events of one officer with the
\* same case identifier.
C7_Witness ==
    /\ result.fn = "initial_payments"
    /\ Len(data) = 2
    /\ CountedPayment(data[1], now) /\ CountedPayment(data[2], now)
    /\ data[1].data.SetOfficerName = data[2].data.SetOfficerName
    /\ data[1].data.CaseID = data[2].data.CaseID
    /\ Len(result.value) = 1 /\ result.value[1].count = 1

\* The event's timestamp, read by the aggregator's parser and converted to
\* Pacific time, is in the calendar month (year and month) of now.
InCurrentCalendarMonth(e, instant) ==
    /\ HasKey(e, "timestamp")
    /\ strptime(e.timestamp).ok
    /\ LET local == astimezone_pacific(strptime(e.timestamp).val)
       IN  /\ local.year = now_pacific(instant).year
           /\ local.month = now_pacific(instant).month

\* Events of the list that the lead-source contract counts for a source.
LeadsOf(events, instant, source) ==
    { i \in 1..Len(events) :
        /\ InCurrentCalendarMonth(events[i], instant)
        /\ HasKey(events[i], "data")
        /\ LowerIsYes(Get(events[i].data, "Leadsales", Str("no"))).ok
        /\ LowerIsYes(Get(events[i].data, "Leadsales", Str("no"))).val
        /\ Bool(Get(events[i].data, "Leadsource", Str("")))
        /\ Get(events[i].data, "Leadsource", Str("")) = source }

CountFor(mapping, key) == IF Has(mapping, key) THEN mapping[IndexOf(mapping, key)].count ELSE 0

\* C8: in process_leadsource_data an event outside the current calendar
\* month (year and month of now, Pacific time) never contributes, and each
\* in-month event with Leadsales yes and a non-empty Leadsource adds 1.
C8_LeadsourceCurrentMonthOnly ==
    result.fn = "leadsource_data" =>
        \A source \in {Str("FB"), Str("Google")} :
            CountFor(result.value, source) = Cardinality(LeadsOf(data, now, source))

\* An initial-payment event that has everything either aggregator reads.
IsPaymentEvent(e) ==
    /\ HasKey(e, "timestamp") /\ HasKey(e, "data")
    /\ strptime(e.timestamp).ok
    /\ LowerIsYes(Get(e.data, "InitialPayment", Str("no"))).ok
    /\ LowerIsYes(Get(e.data, "InitialPayment", Str("no"))).val
    /\ Bool(Get(e.data, "SetOfficerName", PyNone))
    /\ Bool(Get(e.data, "CaseID", PyNone))

\* Event e, taken alone, is in the month window of
\* process_monthly_revenue_enrollments (it creates the officer's entry).
InRevenueWindow(e, instant) == RevenueEnrollStep(<<>>, e, instant).acc # <<>>

\* C9: an event is in the current month for process_initial_payments exactly
\* when it is for process_monthly_revenue_enrollments.
C9_SameMonthWindow ==
    result.fn = "monthly_revenue_enrollments" =>
        \A i \in 1..Len(data) :
            IsPaymentEvent(data[i]) =>
                (CountedPayment(data[i], now) <=> InRevenueWindow(data[i], now))

\* Processing event e ends in an except clause of the aggregator (the entry's
\* own, or the inner one for an unparsable amount).
IsMalformedFor(fn, e, instant) ==
    CASE fn = "daily_enrollments" ->
             DailyStep(SeedBuckets(now_pacific(instant).ord, 0, <<>>), e).raised
      [] fn = "leadsource_data" -> LeadsourceStep(<<>>, e, instant).raised
      [] fn = "admin_monthly_revenue" ->
             AdminRevenueStep(<<>>, e, instant).raised
             \/ AdminRevenueStep(<<>>, e, instant).warned
      [] fn = "monthly_revenue_enrollments" ->
             \/ RevenueEnrollStep(<<>>, e, instant).raised
             \/ RevenueEnrollStep(<<>>, e, instant).warned
             \/ PaymentsStep(<<>>, e, instant).raised
      [] fn = "initial_payments" -> PaymentsStep(<<>>, e, instant).raised
      [] fn = "enrollments_per_opener" -> OpenerStep(<<>>, e, instant).raised
      [] OTHER -> FALSE

\* C10: for every aggregator a malformed event is a no-op: the output equals
\* the output for the list without that event.
C10_MalformedEventIsNoOp ==
    result.fn # "none" =>
        \A i \in 1..Len(data) :
            IsMalformedFor(result.fn, data[i], now) =>
                result.value = Apply(result.fn, WithoutAt(data, i), now)

----------------------------------------------------------------------------
(* Properties of process_daily_enrollments.                                *)

\* Today's date in Pacific time, as an ordinal.
Today(instant) == now_pacific(instant).ord

\* The bucket date of an event of `back` days ago: its Pacific-local date
\* plus one day.
ShiftedDate(instant, back) == DateKey(Today(instant) - back + 1)

\* The list is one Leadsales 'yes' event dated yesterday and one dated two
\* days ago, in either order and however the timestamps are written.
YesterdayAndTwoDaysAgo(events, instant) ==
    /\ Len(events) = 2
    /\ \E s1, s2 \in Styles :
           {events[1], events[2]} =
               {DatedEvent(instant, 1, s1, "yes"), DatedEvent(instant, 2, s2, "yes")}

BothShiftedDatesCounted ==
    \A back \in {1, 2} :
        /\ Has(result.value, ShiftedDate(now, back))
        /\ CountFor(result.value, ShiftedDate(now, back)) = 1

\* C11 (as stated): for any current date, one 'yes' event dated yesterday and
\* one dated two days ago give entries for both shifted dates, each with
\* count 1.
C11_ShiftedDatesOnAnyDay ==
    (result.fn = "daily_enrollments" /\ YesterdayAndTwoDaysAgo(data, now))
        => BothShiftedDatesCounted

\* C11 (amended): when yesterday and the day before are both Monday to Friday
\* in Pacific time, one 'yes' event dated yesterday and one dated two days
\* ago give entries for both shifted dates, each with count 1.
C11_ShiftedDatesOnWeekdays ==
    ( /\ result.fn = "daily_enrollments"
      /\ YesterdayAndTwoDaysAgo(data, now)
      /\ Weekday(Today(now) - 1) < 5
      /\ Weekday(Today(now) - 2) < 5 )
        => BothShiftedDatesCounted

\* The daily aggregate was computed, on a day whose two previous days are
\* weekdays, from one 'yes' event of each of them.
C11_Witness ==
    /\ result.fn = "daily_enrollments"
    /\ YesterdayAndTwoDaysAgo(data, now)
    /\ Weekday(Today(now) - 1) < 5
    /\ Weekday(Today(now) - 2) < 5
    /\ CountFor(result.value, ShiftedDate(now, 1)) = 1

\* The calendar date written in a timestamp string.
OwnDate(ts) == [y |-> TsYear(ts), m |-> TsMonth(ts), d |-> TsDay(ts)]

\* The list is made as test_app.py:16-29 makes it: naive timestamps one and
\* two days before now, at least one event on each of the two days.
IsTestList(events, instant) ==
    /\ \A i \in 1..Len(events) :
           \E back \in {1, 2} : \E flag \in {"yes", "no"} :
               events[i] = DatedEvent(instant, back, "naive", flag)
    /\ \A back \in {1, 2} :
           \E i \in 1..Len(events) :
               events[i].timestamp = DatedTimestamp(instant, back, "naive")

\* Leadsales 'yes' events of the list whose timestamp carries the date.
YesOn(events, date) ==
    { i \in 1..Len(events) :
        /\ OwnDate(events[i].timestamp) = date
        /\ events[i].data.Leadsales = Str("yes") }

\* C12: for a list of 'yes' and 'no' events timestamped one and two days
\* before now, the result has, for each of the two days, an entry dated with
\* the events' own calendar date whose count is the number of 'yes' events of
\* that date.
C12_OwnDateCounts ==
    (result.fn = "daily_enrollments" /\ IsTestList(data, now)) =>
        \A back \in {1, 2} :
            LET date == OwnDate(DatedTimestamp(now, back, "naive"))
            IN  /\ Has(result.value, date)
                /\ CountFor(result.value, date) = Cardinality(YesOn(data, date))

\* The keys seeded from today's date: the day after each weekday among today
\* and the 13 days before it.
SeededDates(instant) ==
    { DateKey(day + 1) :
        day \in { p \in (Today(instant) - 13)..Today(instant) : Weekday(p) < 5 } }

\* C13: the result has at most 10 entries, in strictly descending date order,
\* and every date is a key seeded from today's date, whatever the events.
C13_SeededBucketsOnly ==
    result.fn = "daily_enrollments" =>
        /\ Len(result.value) <= 10
        /\ \A k \in 1..(Len(result.value) - 1) :
               DateLess(result.value[k + 1].name, result.value[k].name)
        /\ \A k \in 1..Len(result.value) :
               result.value[k].name \in SeededDates(now)

\* The daily aggregate was computed from a list with an event that was counted
\* and an event whose shifted date is no seeded key.
C13_Witness ==
    /\ result.fn = "daily_enrollments"
    /\ \E k \in 1..Len(result.value) : result.value[k].count > 0
    /\ \E i \in 1..Len(data) :
           DateKey(fromisoformat_pacific(data[i].timestamp).val.ord + 1)
               \notin SeededDates(now)

----------------------------------------------------------------------------
(* Properties of the endpoints.                                            *)

\* The step taken is the response of the endpoint to call c.
Answers(c) == pc[c] = "done" /\ pc'[c] = "idle"

\* C14: /api/daily-enrollments answers 200 with the list of buckets whenever
\* the fetcher returned a payload and with the error status exactly when it
\* returned None; a call whose fetch succeeded with a list, the empty list
\* included, is never answered as a fetch failure.
C14_ErrorOnlyWhenFetcherReturnedNone ==
    [][\A c \in Calls :
          Answers(c) =>
              /\ (answer'.status = 500) <=> (ret[c] = None)
              /\ (ret[c] # None) => (answer'.status = 200 /\ answer'.body = "buckets")
              /\ (IsSuccess(response[c]) /\ response[c].body.type = "list")
                     => answer'.status = 200]_vars

\* The officer occurs in the sequence of reported officers.
WasReported(seq, officer_name) == \E k \in 1..Len(seq) : seq[k] = officer_name

\* Entries of the aggregates with demos above zero whose officer has not been
\* reported yet.
Due(sales, seq) ==
    { i \in 1..Len(sales) : sales[i].demos > 0 /\ ~WasReported(seq, sales[i].name) }

====
